---- MODULE Spec2Model ----
(***************************************************************************)
(* Threatened Species Explorer (streamlit_app.py).                         *)
(*                                                                         *)
(* One evaluation of the script is one action: load_data (cached),         *)
(* create_filters (reads the sidebar widgets), filter_data, the four       *)
(* metrics, create_map, the CSV export and the data table, all inside the  *)
(* try/except of main.                                                     *)
(*                                                                         *)
(* Strings are sequences of one-character strings.  Coordinates are whole  *)
(* degrees (the comparisons of load_data are the only arithmetic on them). *)
(***************************************************************************)
EXTENDS Integers, Sequences, FiniteSets, TLC

VARIABLES
    source,       \* the spreadsheet read by pd.read_excel: [columns, rows]
    cache,        \* st.cache_data entry of load_data: [ok, err, df]
    widgets,      \* sidebar widget state of the session (search + 9 selectboxes)
    rendered,     \* the widgets the last evaluation put on the sidebar
    choices,      \* the options the last evaluation gave each selectbox
    filtered_df,  \* [ok, err, df]: the value of filtered_df in main, once assigned
    metrics,      \* the st.metric values of the last evaluation
    map_points,   \* [ok, rows]: the rows create_map drew markers for
    csv,          \* [ok, rows]: the rows serialised by to_csv
    table,        \* [ok, rows]: the rows given to st.dataframe
    outcome,      \* "start" | "ok" | "error" (st.error shown)
    error,        \* the exception main caught: "" | "KeyError" | "re.error"
    pressed       \* TRUE when the last evaluation was started by the Reset All button

vars == <<source, cache, widgets, rendered, choices, filtered_df, metrics,
          map_points, csv, table, outcome, error, pressed>>

----------------------------------------------------------------------------
(* Characters and strings *)

\* The characters of the model, in code-point order (Python compares str by code point).
CharOrder ==
    <<"(", "*", ".", "0", "5", "9", "A", "C", "E", "K", "L", "T", "U", "V", "Z",
      "a", "c", "e", "f", "k", "l", "n", "o", "q", "t", "u", "v", "z">>

Chars == {CharOrder[i] : i \in 1..Len(CharOrder)}

Ord(c) == CHOOSE i \in 1..Len(CharOrder) : CharOrder[i] = c

\* str.lower on one character
LowerChar(c) ==
    CASE c = "A" -> "a" [] c = "C" -> "c" [] c = "E" -> "e" [] c = "K" -> "k" [] c = "L" -> "l"
      [] c = "T" -> "t" [] c = "U" -> "u" [] c = "V" -> "v" [] c = "Z" -> "z"
      [] OTHER -> c

\* str.lower
Lower(s) == [i \in 1..Len(s) |-> LowerChar(s[i])]

\* a < b for Python str (lexicographic by code point, a proper prefix is smaller)
RECURSIVE StrLess(_, _)
StrLess(a, b) ==
    IF b = <<>> THEN FALSE
    ELSE IF a = <<>> THEN TRUE
    ELSE IF a[1] = b[1] THEN StrLess(Tail(a), Tail(b))
    ELSE Ord(a[1]) < Ord(b[1])

\* sorted(list of distinct str): the least element first
RECURSIVE SortedStrs(_)
SortedStrs(S) ==
    IF S = {} THEN <<>>
    ELSE LET m == CHOOSE x \in S : \A y \in S \ {x} : StrLess(x, y)
         IN  <<m>> \o SortedStrs(S \ {m})

\* sub occurs in s as a contiguous run of characters (Python: sub in s)
IsSubstring(sub, s) ==
    \E j \in 0..(Len(s) - Len(sub)) : SubSeq(s, j + 1, j + Len(sub)) = sub

Range(f) == {f[i] : i \in DOMAIN f}

----------------------------------------------------------------------------
(* Regular expressions: Series.str.contains(pat) has regex=True by default, *)
(* so the pattern goes through re.compile and re.search.                    *)

\* re.compile raises re.error: "(" opens a group that nothing closes (")" is not a
\* character of the model), "*" needs something to repeat and cannot repeat a repeat.
RegexCompiles(pat) ==
    /\ \A i \in 1..Len(pat) : pat[i] # "("
    /\ \A i \in 1..Len(pat) : pat[i] = "*" => (i > 1 /\ pat[i - 1] # "*")

\* The pattern as a sequence of items: one character (or "."), repeated or not.
RECURSIVE RegexItems(_)
RegexItems(pat) ==
    IF pat = <<>> THEN <<>>
    ELSE IF Len(pat) >= 2 /\ pat[2] = "*"
         THEN <<[c |-> pat[1], star |-> TRUE]>> \o RegexItems(SubSeq(pat, 3, Len(pat)))
         ELSE <<[c |-> pat[1], star |-> FALSE]>> \o RegexItems(Tail(pat))

\* "." matches any character (the model has no newline), any other matches itself
AtomMatches(a, ch) == a = "." \/ a = ch

\* re.match of items[i..] against s at position j
RECURSIVE MatchHere(_, _, _, _)
MatchHere(items, i, s, j) ==
    IF i > Len(items) THEN TRUE
    ELSE IF items[i].star
         THEN \/ MatchHere(items, i + 1, s, j)
              \/ /\ j <= Len(s)
                 /\ AtomMatches(items[i].c, s[j])
                 /\ MatchHere(items, i, s, j + 1)
         ELSE /\ j <= Len(s)
              /\ AtomMatches(items[i].c, s[j])
              /\ MatchHere(items, i + 1, s, j + 1)

\* bool(re.search(pat, s)) for a pattern that compiles
RegexSearch(pat, s) ==
    LET items == RegexItems(pat)
    IN  \E j \in 1..(Len(s) + 1) : MatchHere(items, 1, s, j)

----------------------------------------------------------------------------
(* Tables (DataFrames): [columns |-> set of column names, rows |-> sequence  *)
(* of rows], a row being a function from the columns to cells.  A cell is a  *)
(* str, a number or NaN (the missing-value marker).                          *)

StrCell(s) == [t |-> "str", s |-> s, n |-> 0]
NumCell(n) == [t |-> "num", s |-> <<>>, n |-> n]
NaN == [t |-> "nan", s |-> <<>>, n |-> 0]

\* pd.notna
notna(x) == x.t # "nan"

Digits == {"0", "5", "9"}
DigitVal(c) == CASE c = "0" -> 0 [] c = "5" -> 5 [] c = "9" -> 9

RECURSIVE ParseDigits(_, _)
ParseDigits(s, acc) ==
    IF s = <<>> THEN acc ELSE ParseDigits(Tail(s), 10 * acc + DigitVal(s[1]))

\* pd.to_numeric(x, errors='coerce') on one cell: what does not parse becomes NaN
to_numeric(x) ==
    CASE x.t = "num" -> x
      [] x.t = "nan" -> NaN
      [] x.t = "str" ->
            IF x.s # <<>> /\ \A i \in 1..Len(x.s) : x.s[i] \in Digits
            THEN NumCell(ParseDigits(x.s, 0))
            ELSE NaN

\* the str 'nan'
nan_str == <<"n", "a", "n">>

\* .fillna('').astype(str).replace('nan', '') on one cell of a text column
to_clean_str(x) ==
    LET filled == IF notna(x) THEN x ELSE StrCell(<<>>)
    IN  IF filled.s = nan_str THEN StrCell(<<>>) ELSE filled

\* df.rename(columns={from: to}): a column that is not there is left alone
rename(df, from, to) ==
    IF from \notin df.columns THEN df
    ELSE LET cols == (df.columns \ {from}) \cup {to}
         IN  [columns |-> cols,
              rows |-> [i \in 1..Len(df.rows) |->
                          [c \in cols |-> IF c = to THEN df.rows[i][from]
                                          ELSE df.rows[i][c]]]]

\* df[mask]: the rows whose entry of the boolean mask is True, in their order
where(df, mask) ==
    LET ids == SelectSeq([i \in 1..Len(df.rows) |-> i], LAMBDA i : mask[i])
    IN  [columns |-> df.columns, rows |-> [k \in 1..Len(ids) |-> df.rows[ids[k]]]]

string_columns ==
    <<"phylum", "class", "species", "continent", "countryCode",
      "state", "county", "landcover", "iucnRedListCategory">>

EmptyFrame == [columns |-> {}, rows |-> <<>>]
Raised(e) == [ok |-> FALSE, err |-> e, df |-> EmptyFrame]
Returned(df) == [ok |-> TRUE, err |-> "", df |-> df]

\* the bounds left out
valid_coordinates_strict(r) ==
    /\ r["latitude"].t = "num" /\ r["longitude"].t = "num"
    /\ r["latitude"].n > -90 /\ r["latitude"].n < 90
    /\ r["longitude"].n > -180 /\ r["longitude"].n < 180

\* lines 61-64: the mask of valid coordinates (a comparison with NaN is False)
valid_coordinates(r) ==
    /\ r["latitude"].t = "num" /\ r["longitude"].t = "num"
    /\ r["latitude"].n >= -90 /\ r["latitude"].n <= 90
    /\ r["longitude"].n >= -180 /\ r["longitude"].n <= 180

\* lines 44-45: both coordinate columns through pd.to_numeric
coordinates_to_numeric(df) ==
    [columns |-> df.columns,
     rows |-> [i \in 1..Len(df.rows) |->
                 [c \in df.columns |->
                    IF c \in {"longitude", "latitude"} THEN to_numeric(df.rows[i][c])
                    ELSE df.rows[i][c]]]]

\* lines 51-55: every text column that df has, cleaned
string_columns_cleaned(df) ==
    [columns |-> df.columns,
     rows |-> [i \in 1..Len(df.rows) |->
                 [c \in df.columns |->
                    IF c \in Range(string_columns) THEN to_clean_str(df.rows[i][c])
                    ELSE df.rows[i][c]]]]

\* line 58: df.dropna(subset=['longitude', 'latitude'])
dropna(df) ==
    where(df, [i \in 1..Len(df.rows) |->
                 notna(df.rows[i]["longitude"]) /\ notna(df.rows[i]["latitude"])])

\* load_data applied to the spreadsheet src
load_data(src) ==
    LET df1 == rename(rename(src, "lon_keep", "longitude"), "lat_keep", "latitude")
    IN  IF ~({"longitude", "latitude"} \subseteq df1.columns) THEN Raised("KeyError")
        ELSE
        LET df4 == dropna(string_columns_cleaned(coordinates_to_numeric(df1)))
        IN  Returned(where(df4, [i \in 1..Len(df4.rows) |->
                                   valid_coordinates(df4.rows[i])]))

----------------------------------------------------------------------------
(* Sidebar *)

All == <<"A", "l", "l">>

\* get_unique_values(df, column), for a column of df
get_unique_values(df, column) ==
    LET unique_vals == {df.rows[i][column] : i \in 1..Len(df.rows)}
    IN  SortedStrs({x.s : x \in {y \in unique_vals : notna(y)}})

\* the options of the selectbox of a column
options(df, column) == <<All>> \o get_unique_values(df, column)

\* the widget of each column, in the order create_filters builds them
widget_of ==
    [phylum |-> "phylum", class |-> "class_", species |-> "species",
     continent |-> "continent", countryCode |-> "country", state |-> "state",
     county |-> "county", landcover |-> "landcover", iucnRedListCategory |-> "iucn"]

\* the state of the widgets in a fresh session: empty text input, first option
default_widgets ==
    [search |-> <<>>, phylum |-> All, class_ |-> All, species |-> All,
     continent |-> All, country |-> All, state |-> All, county |-> All,
     landcover |-> All, iucn |-> All]

\* the selectboxes create_filters reaches: those before the first column df lacks
reached(df) ==
    {i \in 1..Len(string_columns) :
        \A k \in 1..i : string_columns[k] \in df.columns}

\* create_filters(df): the text input, then one selectbox per column, then the
\* button; df[column] raises KeyError for a column df does not have.  The values
\* of the widgets come from the session.
create_filters(df, w) ==
    LET n == Cardinality(reached(df))
        boxes == {widget_of[string_columns[i]] : i \in reached(df)}
        opts == [i \in reached(df) |-> options(df, string_columns[i])]
    IN  IF n < Len(string_columns)
        THEN [ok |-> FALSE, err |-> "KeyError", filters |-> w,
              rendered |-> {"search"} \cup boxes, choices |-> opts]
        ELSE [ok |-> TRUE, err |-> "", filters |-> w,
              rendered |-> {"search", "reset"} \cup boxes, choices |-> opts]

----------------------------------------------------------------------------
(* filter_data *)

searched_columns ==
    <<"species", "phylum", "class", "state", "countryCode", "county",
      "landcover", "iucnRedListCategory">>

\* df[col].str.lower().str.contains(search, na=False) on one row
str_contains(r, col, search) ==
    r[col].t = "str" /\ RegexSearch(search, Lower(r[col].s))

\* lines 115-123: one exact-match step
exact(df, choice, col) ==
    IF choice # All
    THEN where(df, [i \in 1..Len(df.rows) |-> df.rows[i][col] = StrCell(choice)])
    ELSE df

\* lines 102-113: the search step; re.error when the pattern does not compile
search_step(df, search) ==
    IF search = <<>> THEN Returned(df)
    ELSE LET s == Lower(search)
         IN  IF ~RegexCompiles(s) THEN Raised("re.error")
             ELSE Returned(where(df, [k \in 1..Len(df.rows) |->
                    \E i \in 1..Len(searched_columns) :
                        str_contains(df.rows[k], searched_columns[i], s)]))

filter_data(df, f) ==
    LET d0 == search_step(df, f.search)
    IN  IF ~d0.ok THEN d0
        ELSE
        LET d1 == exact(d0.df, f.phylum, "phylum")
            d2 == exact(d1, f.class_, "class")
            d3 == exact(d2, f.species, "species")
            d4 == exact(d3, f.continent, "continent")
            d5 == exact(d4, f.country, "countryCode")
            d6 == exact(d5, f.state, "state")
            d7 == exact(d6, f.county, "county")
            d8 == exact(d7, f.landcover, "landcover")
            d9 == exact(d8, f.iucn, "iucnRedListCategory")
        IN  Returned(d9)

----------------------------------------------------------------------------
(* Metrics (lines 212-223) *)

\* len(df[col].unique())
nunique(df, col) == Cardinality({df.rows[i][col] : i \in 1..Len(df.rows)})

\* how many rows of df have the value v in col
value_count(df, col, v) == Cardinality({i \in 1..Len(df.rows) : df.rows[i][col] = v})

\* largest first: the last of the sorted modes
mode_last(df, col) ==
    LET vals  == {v \in {df.rows[i][col] : i \in 1..Len(df.rows)} : notna(v)}
        modes == {v \in vals : \A u \in vals :
                     value_count(df, col, u) <= value_count(df, col, v)}
        srt   == SortedStrs({v.s : v \in modes})
    IN  IF Len(df.rows) = 0 THEN [ok |-> FALSE, s |-> <<>>]
        ELSE [ok |-> TRUE, s |-> srt[Len(srt)]]

\* df[col].mode()[0]: Series.mode returns the most frequent values (NaN left out)
\* sorted, and [0] of the empty Series it returns for an empty df raises KeyError
mode(df, col) ==
    LET vals  == {v \in {df.rows[i][col] : i \in 1..Len(df.rows)} : notna(v)}
        modes == {v \in vals : \A u \in vals :
                     value_count(df, col, u) <= value_count(df, col, v)}
    IN  IF modes = {} THEN [ok |-> FALSE, s |-> <<>>]
        ELSE [ok |-> TRUE, s |-> SortedStrs({v.s : v \in modes})[1]]

----------------------------------------------------------------------------
(* create_map *)

MAX_POINTS == 1000
RANDOM_STATE == 42

\* df.sample(n=n, random_state=seed): n distinct rows of df, the same for the same
\* (len(df), n, seed).  The generator is stood for by a window of n positions that
\* starts at seed mod len(df); the order of the sampled rows is not modelled.
sample(df, n, seed) ==
    [columns |-> df.columns,
     rows |-> [k \in 1..n |-> df.rows[((seed + k - 1) % Len(df.rows)) + 1]]]

\* lines 157-180: the marker of a row is skipped when building it raises
\* (.strip() of a cell that is not a str)
marker_raises(r) == r["iucnRedListCategory"].t # "str"

\* without the cap of lines 131-133
create_map_uncapped(df) ==
    SelectSeq(df.rows, LAMBDA r : ~marker_raises(r))

\* create_map(df): the rows that get a marker
create_map(df) ==
    LET shown == IF Len(df.rows) > MAX_POINTS
                 THEN sample(df, MAX_POINTS, RANDOM_STATE) ELSE df
    IN  SelectSeq(shown.rows, LAMBDA r : ~marker_raises(r))

----------------------------------------------------------------------------
(* main *)

NoRows == [ok |-> FALSE, rows |-> <<>>]
Rows(rs) == [ok |-> TRUE, rows |-> rs]
NoFrame == Raised("")
NoMetrics ==
    [shown |-> {}, species |-> 0, observations |-> 0, countries |-> 0, status |-> <<>>]

\* the entry aliases the frame filter_data worked on
cache_entry_aliased(loaded, filtered) == IF filtered.ok THEN filtered ELSE loaded

\* @st.cache_data: the entry of load_data after an evaluation is the value load_data
\* returned; main gets a copy of it, so nothing done to df in main reaches the entry
cache_entry(loaded, filtered) == loaded

\* what an evaluation leaves behind when exception e reaches line 266
failed(c, e) ==
    [cache |-> c, rendered |-> {}, choices |-> <<>>,
     filtered_df |-> NoFrame, metrics |-> NoMetrics,
     map_points |-> NoRows, csv |-> NoRows, table |-> NoRows,
     outcome |-> "error", error |-> e]

\* lines 227-243, reached once the four metrics are shown
main_tabs(r, fd, m) ==
    [r EXCEPT !.metrics = m,
              !.map_points = Rows(create_map(fd.df)),
              !.csv = Rows(fd.df.rows),
              !.table = Rows(fd.df.rows),
              !.outcome = "ok", !.error = ""]

\* lines 212-223: three metrics, then the most common status
main_metrics(r, fd, st) ==
    IF ~st.ok THEN [r EXCEPT !.error = "KeyError"]
    ELSE main_tabs(r, fd, [r.metrics EXCEPT !.shown = @ \cup {"status"},
                                            !.status = st.s])

\* line 207 on
main_filtered(r, ld, fd) ==
    IF ~fd.ok THEN [r EXCEPT !.error = fd.err]
    ELSE main_metrics(
            [r EXCEPT !.cache = cache_entry(ld, fd),
                      !.filtered_df = fd,
                      !.metrics = [shown |-> {"species", "observations", "countries"},
                                   species |-> nunique(fd.df, "species"),
                                   observations |-> Len(fd.df.rows),
                                   countries |-> nunique(fd.df, "countryCode"),
                                   status |-> <<>>]],
            fd, mode(fd.df, "iucnRedListCategory"))

\* line 204 on
main_filters(r, ld, cf) ==
    IF ~cf.ok THEN [r EXCEPT !.rendered = cf.rendered, !.choices = cf.choices]
    ELSE main_filtered([r EXCEPT !.rendered = cf.rendered, !.choices = cf.choices],
                       ld, filter_data(ld.df, cf.filters))

\* line 201 on: ld is what load_data() gave
main_loaded(c, ld, w) ==
    IF ~ld.ok THEN failed(c, ld.err)
    ELSE main_filters(failed(cache_entry(ld, NoFrame), "KeyError"), ld,
                      create_filters(ld.df, w))

\* One evaluation of main with the spreadsheet src, the cache entry c and the widget
\* state w: everything the evaluation leaves behind.
main(src, c, w) == main_loaded(c, IF c.ok THEN c ELSE load_data(src), w)

----------------------------------------------------------------------------
(* The session *)

\* the script runs once with the widgets in state w
Evaluate(w, reset) ==
    \E r \in {main(source, cache, w)} :
        /\ widgets' = w
        /\ cache' = r.cache
        /\ rendered' = r.rendered
        /\ choices' = r.choices
        /\ filtered_df' = r.filtered_df
        /\ metrics' = r.metrics
        /\ map_points' = r.map_points
        /\ csv' = r.csv
        /\ table' = r.table
        /\ outcome' = r.outcome
        /\ error' = r.error
        /\ pressed' = reset
        /\ UNCHANGED source

\* the number of selectboxes that are not on "All" in w
active(w) == Cardinality({i \in 1..Len(string_columns) :
                            w[widget_of[string_columns[i]]] # All})

\* the most selectboxes taken off "All" at a time
MaxActive == 1

\* the session opens: the first evaluation of the script
FirstRun ==
    /\ outcome = "start"
    /\ Evaluate(widgets, FALSE)

\* the user types s into Quick Search
SetSearch(S) ==
    /\ "search" \in rendered
    /\ \E s \in S :
        /\ s # widgets.search
        /\ Evaluate([widgets EXCEPT !.search = s], FALSE)

\* the user picks an option of the selectbox of column i
Select(I) ==
    \E i \in I \cap DOMAIN choices :
        \E v \in Range(choices[i]) :
            LET w == [widgets EXCEPT ![widget_of[string_columns[i]]] = v]
            IN  /\ v # widgets[widget_of[string_columns[i]]]
                /\ active(w) <= MaxActive
                /\ Evaluate(w, FALSE)

\* the user presses Reset All: the press starts an evaluation in which st.button
\* returns True, and st.experimental_rerun() (line 96) starts the script again.
\* Neither touches the values of the other widgets.
PressReset ==
    /\ "reset" \in rendered
    /\ Evaluate(widgets, TRUE)

----------------------------------------------------------------------------
(* Spreadsheets *)

source_columns == Range(string_columns) \cup {"lat_keep", "lon_keep"}

S(s) == StrCell(s)

\* one row of a spreadsheet
Row(phylum, class, species, continent, country, state, county, landcover, iucn, lat, lon) ==
    [c \in source_columns |->
        CASE c = "phylum" -> phylum [] c = "class" -> class
          [] c = "species" -> species [] c = "continent" -> continent
          [] c = "countryCode" -> country [] c = "state" -> state
          [] c = "county" -> county [] c = "landcover" -> landcover
          [] c = "iucnRedListCategory" -> iucn
          [] c = "lat_keep" -> lat [] c = "lon_keep" -> lon]

co == S(<<"c", "o">>)
av == S(<<"a", "v">>)
af == S(<<"a", "f">>)
fo == S(<<"f", "o">>)
leo == S(<<"l", "e", "o">>)
eq == S(<<"e", "q">>)
KE == S(<<"K", "E">>)
TZ == S(<<"T", "Z">>)
VU == S(<<"V", "U">>)
LC == S(<<"L", "C">>)

\* The rows the spreadsheets of a session are made of: a sighting of "leo", one of
\* "eq" whose county is "Leo", and one with missing cells, the text 'nan' for a
\* species and "leo" for a continent.
Catalogue ==
    { Row(co, av, leo, af, KE, NaN, NaN, fo, VU, NumCell(-1), NumCell(37)),
      Row(co, av, eq, af, KE, NaN, S(<<"L", "e", "o">>), fo, LC,
          NumCell(-1), NumCell(38)),
      Row(co, NaN, S(nan_str), leo, TZ, NaN, NaN, fo, NaN,
          NumCell(0), S(<<"9", "0">>)) }

\* The rows of the spreadsheets load_data is tried on: coordinates on and off the
\* bounds, text that parses and text that does not, missing cells.
Coordinates ==
    { <<NumCell(90), NumCell(180)>>, <<NumCell(-90), NumCell(-180)>>,
      <<NumCell(95), NumCell(0)>>, <<NumCell(-91), NumCell(0)>>,
      <<NumCell(0), NumCell(181)>>, <<NumCell(0), NumCell(-181)>>,
      <<S(<<"9", "0">>), S(<<"5">>)>>, <<S(<<"9", "5">>), NumCell(5)>>,
      <<S(<<"n", "a">>), NumCell(0)>>, <<NumCell(0), NaN>>, <<NaN, NumCell(0)>> }

CoordinateRows ==
    { Row(co, av, leo, af, KE, NaN, NaN, fo, VU, p[1], p[2]) : p \in Coordinates }

\* the longest spreadsheet
MaxRows == 2

\* the spreadsheets of at most MaxRows rows taken from R
Sheets(R) ==
    UNION { { [columns |-> source_columns, rows |-> rs] : rs \in [1..n -> R] }
            : n \in 0..MaxRows }

\* a spreadsheet without the column col
without(sheet, col) ==
    LET cols == sheet.columns \ {col}
    IN  [columns |-> cols,
         rows |-> [i \in 1..Len(sheet.rows) |-> [c \in cols |-> sheet.rows[i][c]]]]

\* how far past MAX_POINTS (and short of it) the long spreadsheets go
MapSlack == 3

\* a spreadsheet of n rows, all different: "leo" everywhere, all VU but the first two
LongSheet(n) ==
    [columns |-> source_columns,
     rows |-> [i \in 1..n |->
                 Row(co, av, leo, af, KE, NaN, NaN, fo, IF i <= 2 THEN LC ELSE VU,
                     NumCell((i % 181) - 90), NumCell(i \div 181))]]

\* what the user types into Quick Search
Searches ==
    { <<>>, <<"L", "e", "o">>, <<"z", "z">>, <<".">>, <<"(">> }

----------------------------------------------------------------------------
(* Specifications *)

Start(sources) ==
    /\ source \in sources
    /\ cache = NoFrame
    /\ widgets = default_widgets
    /\ rendered = {}
    /\ choices = <<>>
    /\ filtered_df = NoFrame
    /\ metrics = NoMetrics
    /\ map_points = NoRows
    /\ csv = NoRows
    /\ table = NoRows
    /\ outcome = "start"
    /\ error = ""
    /\ pressed = FALSE

\* A session on a small spreadsheet with every column.
Init == Start(Sheets(Catalogue))

Next ==
    \/ FirstRun
    \/ SetSearch(Searches)
    \/ Select(1..Len(string_columns))
    \/ PressReset

Spec == Init /\ [][Next]_vars

\* The first evaluation on spreadsheets with good and bad coordinates, and on
\* spreadsheets that lack a column.
InitLoad ==
    Start(Sheets(CoordinateRows)
          \cup { without(sh, c) : sh \in Sheets(Catalogue),
                                  c \in {"lat_keep", "lon_keep", "phylum", "county"} })

NextLoad == FirstRun

SpecLoad == InitLoad /\ [][NextLoad]_vars

\* A session on a spreadsheet of about MAX_POINTS rows.
InitMap ==
    Start({ LongSheet(n) : n \in (MAX_POINTS - MapSlack)..(MAX_POINTS + MapSlack) })

NextMap ==
    \/ FirstRun
    \/ SetSearch({<<>>, <<"v", "u">>})
    \/ Select({5, 9})
    \/ PressReset

SpecMap == InitMap /\ [][NextMap]_vars

----------------------------------------------------------------------------
(* Properties *)

\* the rows of a frame
rows_of(x) == x.df.rows

\* the sidebar was built to the end: every selectbox and the button are there
FiltersBuilt == "reset" \in rendered

\* row r has the lower-cased search text, read literally, in a searched field
literal_hit(r, search) ==
    \E i \in 1..Len(searched_columns) :
        IsSubstring(Lower(search), Lower(r[searched_columns[i]].s))

\* row r has the chosen value in every field whose choice is not "All"
exact_hits(r, w) ==
    \A i \in 1..Len(string_columns) :
        w[widget_of[string_columns[i]]] # All
            => r[string_columns[i]].s = w[widget_of[string_columns[i]]]

\* how many rows of the filtered result have status v
status_count(v) ==
    Cardinality({i \in 1..Len(rows_of(filtered_df)) :
                    rows_of(filtered_df)[i]["iucnRedListCategory"].s = v})

\* C1: what filter_data returns is exactly the rows of the store that pass the
\* search (the search text occurring in one of the eight searched fields, when
\* the text is not empty) and have the chosen value in every field whose choice
\* is not "All".
C1_ExactlyTheMatchingRows ==
    filtered_df.ok =>
        rows_of(filtered_df) =
            SelectSeq(rows_of(cache), LAMBDA r :
                /\ widgets.search # <<>> => literal_hit(r, widgets.search)
                /\ exact_hits(r, widgets))

\* C2: when no row is left after filtering, the evaluation does not end in the
\* error state: the observation count 0 and a status are shown, and the map, the
\* export and the table are produced.
C2_EmptyResultIsShown ==
    (filtered_df.ok /\ Len(rows_of(filtered_df)) = 0) =>
        /\ outcome = "ok"
        /\ metrics.observations = 0
        /\ "status" \in metrics.shown
        /\ map_points.ok /\ csv.ok /\ table.ok

\* C3: with a search text and every choice on "All", the search never raises and
\* keeps a row exactly when the lower-cased text occurs literally in the
\* lower-cased value of one of the eight searched fields.
C3_SearchIsLiteral ==
    (FiltersBuilt /\ widgets.search # <<>> /\ active(widgets) = 0) =>
        /\ error # "re.error"
        /\ filtered_df.ok
        /\ rows_of(filtered_df) =
             SelectSeq(rows_of(cache), LAMBDA r : literal_hit(r, widgets.search))

\* C4: the options of every selectbox are "All" followed by the sorted distinct
\* non-empty values of its column in the store.
C4_ChoicesAreNonEmptyValues ==
    \A i \in DOMAIN choices :
        choices[i] =
            <<All>> \o SortedStrs({rows_of(cache)[k][string_columns[i]].s :
                                      k \in 1..Len(rows_of(cache))} \ {<<>>})

\* the two coordinates of a spreadsheet row parse and are within the bounds
retained(r) ==
    /\ to_numeric(r["lat_keep"]).t = "num"
    /\ to_numeric(r["lon_keep"]).t = "num"
    /\ -90 <= to_numeric(r["lat_keep"]).n /\ to_numeric(r["lat_keep"]).n <= 90
    /\ -180 <= to_numeric(r["lon_keep"]).n /\ to_numeric(r["lon_keep"]).n <= 180

\* C5: the store holds, in their order, exactly the rows of the spreadsheet whose
\* coordinates both parse as numbers and lie within -90..90 and -180..180, the
\* bounds included.
C5_RetainedIffValid ==
    cache.ok =>
        LET kept == SelectSeq(source.rows, retained)
        IN  /\ Len(rows_of(cache)) = Len(kept)
            /\ \A i \in 1..Len(kept) :
                /\ rows_of(cache)[i]["latitude"] = to_numeric(kept[i]["lat_keep"])
                /\ rows_of(cache)[i]["longitude"] = to_numeric(kept[i]["lon_keep"])

\* C5 witness: a row on the bound (latitude 90, longitude 180) was kept and the
\* other row of the spreadsheet was dropped
C5_Witness ==
    /\ cache.ok /\ Len(source.rows) = 2 /\ Len(rows_of(cache)) = 1
    /\ rows_of(cache)[1]["latitude"] = NumCell(90)
    /\ rows_of(cache)[1]["longitude"] = NumCell(180)
    /\ \E i \in 1..2 : source.rows[i]["lat_keep"] = NumCell(95)

\* C6: a spreadsheet that lacks a required column gives no store, and no filter
\* is built on it.
C6_MissingColumnFailsIngestion ==
    (outcome # "start" /\ ~(source_columns \subseteq source.columns)) =>
        /\ ~cache.ok
        /\ rendered = {}

\* C7: the store is what load_data made of the spreadsheet, and the filtered
\* result is filter_data of that store and the present widget values.
C7_DerivedFromStore ==
    /\ cache.ok => cache = load_data(source)
    /\ outcome # "start" => cache.ok
    /\ filtered_df.ok => filtered_df = filter_data(load_data(source).df, widgets)
    /\ outcome = "ok" => filtered_df.ok

\* C7 witness: a choice narrowed a store of two rows to one
C7_Witness ==
    /\ outcome = "ok" /\ Len(rows_of(cache)) = 2 /\ Len(rows_of(filtered_df)) = 1
    /\ widgets.iucn = LC.s

MapAndExport ==
    outcome = "ok" =>
        /\ Range(map_points.rows) \subseteq Range(rows_of(filtered_df))
        /\ Len(map_points.rows) <= MAX_POINTS
        /\ Len(rows_of(filtered_df)) <= MAX_POINTS
             => map_points.rows = rows_of(filtered_df)
        /\ csv = Rows(rows_of(filtered_df))
        /\ table = Rows(rows_of(filtered_df))

\* C9: the map gets rows of the filtered result, at most MAX_POINTS of them and all
\* of them when there are no more than that, the same rows when the same result
\* is rendered again; the export and the table hold every row of the result.
C9_MapIsCappedExportIsFull ==
    /\ []MapAndExport
    /\ [][(outcome = "ok" /\ outcome' = "ok" /\ filtered_df' = filtered_df)
            => map_points' = map_points]_vars

\* C9 witness: a result of more than MAX_POINTS rows was rendered again, with
\* MAX_POINTS different rows on the map
C9_Witness ==
    /\ outcome = "ok" /\ pressed
    /\ Len(rows_of(filtered_df)) > MAX_POINTS
    /\ Cardinality(Range(map_points.rows)) = MAX_POINTS

\* C10: the evaluation that follows a press of Reset All has an empty search text
\* and every choice on "All", and its filtered result is the whole store.
C10_ResetClearsFilters ==
    pressed =>
        /\ widgets = default_widgets
        /\ filtered_df.ok
        /\ rows_of(filtered_df) = rows_of(cache)

====
